---- MODULE Spec2Model ----
(***************************************************************************)
(* A model of motionphoto2.py: the directory scan (process_subdirectory),  *)
(* the per-file step (process_file), the ledger file processed_files.json  *)
(* (load_processed_files / save_processed_files), the thread-pool fan-out  *)
(* (process_directory) and the watchdog handler (FileHandler.on_created).  *)
(*                                                                         *)
(* A file name is a record [base, ext] (Path(f).with_suffix('') and        *)
(* Path(f).suffix); a path is [dir, name] (os.path.join(dir, name)).       *)
(* The ledger is the set of entries [image, video] of the JSON mapping,    *)
(* one per key; the timestamp of an entry is time.time() and is left out.  *)
(***************************************************************************)
EXTENDS Integers, Sequences, FiniteSets, TLC

\* ------------------------------------------------------------------ bounds
MaxDirs == 2        \* directories 1..MaxDirs may exist; 1 is the input root
MaxTree == 4        \* directories 1..MaxTree may exist in the walk specification
MaxCreate == 3      \* files and directories created by the environment
MaxRuns == 2        \* invocations of the program over the same ledger file
MaxListing == 3     \* entries of the directory in the scan-only specification

\* ------------------------------------------------------- program constants
max_workers == 4

\* --------------------------------------------------------------- file names
F(b, e) == [base |-> b, ext |-> e]
NoFile == F("", "")
NoPath == [dir |-> 0, name |-> NoFile]
P(d, f) == [dir |-> d, name |-> f]

\* str.lower() on the suffixes that occur
Lower(e) ==
    CASE e = ".JPG" -> ".jpg"
      [] e = ".HEIC" -> ".heic"
      [] e = ".MOV" -> ".mov"
      [] e = ".MP4" -> ".mp4"
      [] e = ".Mov" -> ".mov"
      [] OTHER -> e

VideoSuffixes == {".mp4", ".mov"}
ImageSuffixes == {".heic", ".heif", ".avif", ".jpg", ".jpeg"}
PairExts == <<".mp4", ".mov", ".MP4", ".MOV">>

IsVideo(f) == Lower(f.ext) \in VideoSuffixes
IsImage(f) == Lower(f.ext) \in ImageSuffixes

\* names the environment may create in a directory of the full model
Names == {F("a", ".jpg"), F("a", ".mov"), F("b", ".JPG")}

\* names of the scan-only specification
RichNames ==
    {F("a", ".jpg"), F("a", ".HEIC"), F("a", ".mov"), F("a", ".MP4"),
     F("a", ".Mov"), F("b", ".JPG"), F("b", ".MOV"), F("c", ".mp4"),
     F("c", ".txt")}

\* --------------------------------------------------------------- the ledger
Keys(L) == {e.image : e \in L}
Put(L, k, v) == {e \in L : e.image # k} \cup {[image |-> k, video |-> v]}

\* -------------------------------------------------------------- directories
AllDirs == 1..MaxTree
Root == 1
Parent(d) == d \div 2

RECURSIVE IsUnder(_, _)
IsUnder(e, d) == IF e = d THEN TRUE ELSE IF e <= 1 THEN FALSE ELSE IsUnder(Parent(e), d)

RECURSIVE Ascending(_)
Ascending(S) ==
    IF S = {} THEN <<>>
    ELSE LET m == CHOOSE x \in S : \A y \in S : x <= y
         IN <<m>> \o Ascending(S \ {m})

Range(s) == {s[k] : k \in 1..Len(s)}

\* a walk that stops at the immediate children of the top directory
WalkShallow(existing, top) ==
    <<top>> \o Ascending({d \in existing : d # top /\ Parent(d) = top})

\* process_directory: subdirs = [input_directory] + every directory os.walk finds
WalkSet(existing, top) == {d \in existing : IsUnder(d, top)}
Walk(existing, top) == <<top>> \o Ascending(WalkSet(existing, top) \ {top})

\* the directory trees under the input root
DirTrees ==
    {S \in SUBSET (1..MaxDirs) : Root \in S /\ \A d \in S \ {Root} : Parent(d) \in S}

\* the directory trees of the walk specification, two levels deep
DeepTrees ==
    {S \in SUBSET AllDirs : Root \in S /\ \A d \in S \ {Root} : Parent(d) \in S}

\* os.path.dirname(event.src_path)
Dirname(path) == path.dir

\* ---------------------------------------------------------------- the Pairer
\* orders in which os.listdir may return the entries
Listings(S) ==
    {s \in [1..Cardinality(S) -> S] : \A i, j \in 1..Cardinality(S) : s[i] = s[j] => i = j}

RECURSIVE SelectSeqBy(_, _)
SelectSeqBy(s, kind) ==
    IF s = <<>> THEN <<>>
    ELSE LET h == Head(s)
             keep == IF kind = "video" THEN IsVideo(h) ELSE IsImage(h)
         IN (IF keep THEN <<h>> ELSE <<>>) \o SelectSeqBy(Tail(s), kind)

\* the skip test left out
SkipNever(image_path, processed_files) == FALSE

\* line 106: if image_path in processed_files: continue
Skip(image_path, processed_files) == image_path \in Keys(processed_files)

\* the four suffixes tried from the last to the first
RECURSIVE FindVideoLast(_, _, _)
FindVideoLast(fname, videos, k) ==
    IF k > Len(PairExts) THEN NoFile
    ELSE IF F(fname, PairExts[Len(PairExts) + 1 - k]) \in videos
         THEN F(fname, PairExts[Len(PairExts) + 1 - k])
    ELSE FindVideoLast(fname, videos, k + 1)

\* lines 111-116: the first of the four suffixes whose video is in the pool
RECURSIVE FindVideo(_, _, _)
FindVideo(fname, videos, k) ==
    IF k > Len(PairExts) THEN NoFile
    ELSE IF F(fname, PairExts[k]) \in videos THEN F(fname, PairExts[k])
    ELSE FindVideo(fname, videos, k + 1)

\* the loop without videos.pop: a paired video stays in the pool
RECURSIVE PairLoopNoPop(_, _, _, _)
PairLoopNoPop(images, input_directory, processed_files, acc) ==
    IF images = <<>> THEN acc
    ELSE LET image == Head(images)
             video == FindVideo(image.base, acc.videos, 1)
         IN IF Skip(P(input_directory, image), processed_files)
            THEN PairLoopNoPop(Tail(images), input_directory, processed_files, acc)
            ELSE PairLoopNoPop(Tail(images), input_directory, processed_files,
                     [tasks |-> Append(acc.tasks, [image |-> image, video |-> video]),
                      videos |-> acc.videos,
                      image_bases |-> acc.image_bases \cup {image.base}])

\* lines 103-118: the loop over images; acc = [tasks, videos, image_bases]
RECURSIVE PairLoop(_, _, _, _)
PairLoop(images, input_directory, processed_files, acc) ==
    IF images = <<>> THEN acc
    ELSE LET image == Head(images)
             video == FindVideo(image.base, acc.videos, 1)
         IN IF Skip(P(input_directory, image), processed_files)
            THEN PairLoop(Tail(images), input_directory, processed_files, acc)
            ELSE PairLoop(Tail(images), input_directory, processed_files,
                     [tasks |-> Append(acc.tasks, [image |-> image, video |-> video]),
                      videos |-> acc.videos \ {video},
                      image_bases |-> acc.image_bases \cup {image.base}])

\* the loop run over the images from the last listed to the first
RECURSIVE Reversed(_)
Reversed(s) == IF s = <<>> THEN <<>> ELSE Append(Reversed(Tail(s)), Head(s))

PairerReversed(files, input_directory, processed_files) ==
    PairLoop(Reversed(SelectSeqBy(files, "image")), input_directory, processed_files,
             [tasks |-> <<>>, videos |-> Range(SelectSeqBy(files, "video")),
              image_bases |-> {}])

\* lines 83-118
Pairer(files, input_directory, processed_files) ==
    PairLoop(SelectSeqBy(files, "image"), input_directory, processed_files,
             [tasks |-> <<>>, videos |-> Range(SelectSeqBy(files, "video")),
              image_bases |-> {}])

\* lines 120-130: the videos copied to the output directory
Unmatched(paired, output_directory) ==
    IF output_directory
    THEN {v \in paired.videos : v.base \notin paired.image_bases}
    ELSE {}

\* -------------------------------------------------------------------- state
VARIABLES
    args,       \* [od, dv]: --output-directory given, --delete-video given
    dirs,       \* the directories that exist
    fs,         \* fs[d]: the files directly inside directory d
    store,      \* processed_files.json is "absent", "valid" JSON or "malformed"
    ledger,     \* the mapping held by processed_files.json when it is valid
    mainPc,     \* where the main thread is
    run,        \* number of the invocation
    observer,   \* "off", "on", "dead", "stopped"
    events,     \* creation events not yet dispatched
    pass,       \* the current or last call of process_directory
    task,       \* task[d]: the future of process_subdirectory(d) in that call
    ncreate,    \* entries created so far
    recorded,   \* history: keys the ledger file has held during this invocation
    succeeded,  \* history: images whose transform has returned successfully
    retry       \* history: images whose latest transform failed

vars == <<args, dirs, fs, store, ledger, mainPc, run, observer, events, pass, task,
          ncreate, recorded, succeeded, retry>>

IdleTask ==
    [st |-> "idle", files |-> <<>>, snap |-> {}, pairs |-> <<>>, unm |-> {},
     i |-> 0, pf |-> {}, late |-> FALSE]

NoEvent == [src_path |-> NoPath, is_directory |-> FALSE]

NoPass ==
    [kind |-> "none", ev |-> NoEvent, root |-> 0, futures |-> <<>>, j |-> 0,
     pc |-> "none", led0 |-> {}, dirs0 |-> {}]

Finished(t) == t.st \in {"done", "failed"}
Running(t) == t.st \in {"listed", "mux", "load", "save"}
PassOver == pass.pc \in {"none", "ok", "raised"}

Init ==
    /\ args \in [od : BOOLEAN, dv : BOOLEAN]
    /\ dirs \in DirTrees
    /\ fs = [d \in AllDirs |-> {}]
    /\ store = "absent"
    /\ ledger = {}
    /\ mainPc = "start"
    /\ run = 1
    /\ observer = "off"
    /\ events = <<>>
    /\ pass = NoPass
    /\ task = [d \in AllDirs |-> IdleTask]
    /\ ncreate = 0
    /\ recorded = {}
    /\ succeeded = {}
    /\ retry = {}

\* -------------------------------------------------------------- environment
\* the watchdog emitter reports a creation while the observer runs
Notify(path, isdir) ==
    IF observer = "on"
    THEN events' = Append(events, [src_path |-> path, is_directory |-> isdir])
    ELSE UNCHANGED events

CreateFile(d, f) ==
    /\ ncreate < MaxCreate
    /\ d \in dirs
    /\ f \notin fs[d]
    /\ fs' = [fs EXCEPT ![d] = @ \cup {f}]
    /\ ncreate' = ncreate + 1
    /\ Notify(P(d, f), FALSE)
    /\ UNCHANGED <<store, args, dirs, ledger, mainPc, run, observer, pass, task,
                   recorded, succeeded, retry>>

CreateDir(d) ==
    /\ ncreate < MaxCreate
    /\ d \notin dirs
    /\ Parent(d) \in dirs
    /\ dirs' = dirs \cup {d}
    /\ ncreate' = ncreate + 1
    /\ Notify(P(Parent(d), F("subdir", "")), TRUE)
    /\ UNCHANGED <<store, args, fs, ledger, mainPc, run, observer, pass, task,
                   recorded, succeeded, retry>>

\* -------------------------------------------------------- process_directory
\* lines 136-144: walk the tree, submit one future per directory
process_directory(kind, ev, input_directory) ==
    LET subdirs == Walk(dirs, input_directory)
    IN /\ pass' = [kind |-> kind, ev |-> ev, root |-> input_directory,
                   futures |-> subdirs, j |-> 1, pc |-> "join",
                   led0 |-> ledger, dirs0 |-> dirs]
       /\ task' = [d \in AllDirs |->
                     IF d \in Range(subdirs)
                     THEN [IdleTask EXCEPT !.st = "queued"]
                     ELSE IdleTask]

\* lines 145-146: future.result() on each future in turn
JoinNext ==
    /\ pass.pc = "join"
    /\ task[pass.futures[pass.j]].st = "done"
    /\ pass' = IF pass.j = Len(pass.futures)
               THEN [pass EXCEPT !.pc = "ok"]
               ELSE [pass EXCEPT !.j = @ + 1]
    /\ UNCHANGED <<store, args, dirs, fs, ledger, mainPc, run, observer, events, task,
                   ncreate, recorded, succeeded, retry>>

\* line 146: future.result() re-raises the exception of a failed task
JoinRaise ==
    /\ pass.pc = "join"
    /\ task[pass.futures[pass.j]].st = "failed"
    /\ pass' = [pass EXCEPT !.pc = "shutdown"]
    /\ UNCHANGED <<store, args, dirs, fs, ledger, mainPc, run, observer, events, task,
                   ncreate, recorded, succeeded, retry>>

\* shutdown(wait=False): the with block is left without waiting
ExecutorExitNoWait(p, t) == TRUE

\* line 143: leaving the with block is executor.shutdown(wait=True)
ExecutorExit(p, t) == \A d \in Range(p.futures) : Finished(t[d])

ShutdownDone ==
    /\ pass.pc = "shutdown"
    /\ ExecutorExit(pass, task)
    /\ pass' = [pass EXCEPT !.pc = "raised"]
    /\ UNCHANGED <<store, args, dirs, fs, ledger, mainPc, run, observer, events, task,
                   ncreate, recorded, succeeded, retry>>

\* ------------------------------------------------------ process_subdirectory
\* a pool thread takes the future from the queue; lines 77-78: os.listdir
Pick(d) ==
    /\ task[d].st = "queued"
    /\ Cardinality({e \in AllDirs : Running(task[e])}) < max_workers
    /\ \E files \in Listings(fs[d]) :
         task' = [task EXCEPT ![d] =
                    [@ EXCEPT !.st = "listed", !.files = files,
                              !.late = \E e \in AllDirs : task[e].st = "failed"]]
    /\ UNCHANGED <<store, args, dirs, fs, ledger, mainPc, run, observer, events, pass,
                   ncreate, recorded, succeeded, retry>>

\* json.load caught and answered with a default
LoadRaisesNever == FALSE

\* line 68: json.load raises on content that is not JSON
LoadRaises == store = "malformed"

\* lines 63-69: the mapping of the file, {} when the file does not exist
load_processed_files == IF store = "valid" THEN ledger ELSE {}

\* lines 81-130: load the ledger, pair, copy the unmatched videos
Scan(d) ==
    /\ task[d].st = "listed"
    /\ LET processed_files == load_processed_files
           paired == Pairer(task[d].files, d, processed_files)
           copies == Unmatched(paired, args.od)
           next == [task[d] EXCEPT !.snap = processed_files,
                                   !.pairs = paired.tasks,
                                   !.unm = copies,
                                   !.i = 1,
                                   !.st = IF paired.tasks = <<>> THEN "done" ELSE "mux"]
       IN IF LoadRaises
          THEN task' = [task EXCEPT ![d].st = "failed"]
          ELSE \/ task' = [task EXCEPT ![d] = next]
               \/ /\ copies # {}       \* shutil.copy2 raises
                  /\ task' = [task EXCEPT ![d] = [next EXCEPT !.st = "failed", !.i = 0]]
    /\ UNCHANGED <<store, args, dirs, fs, ledger, mainPc, run, observer, events, pass,
                   ncreate, recorded, succeeded, retry>>

\* -------------------------------------------------------------- process_file
Cur(d) == task[d].pairs[task[d].i]
CurPath(d) == P(d, Cur(d).image)
CurVideoPath(d) == IF Cur(d).video = NoFile THEN NoPath ELSE P(d, Cur(d).video)

\* lines 26-30: fname is the bare name of the listing without its suffix, so
\* os.path.dirname(fname) is empty and the subdirectory is the output directory
\* itself, whatever input_dir is; 0 stands for the output directory
output_subdirectory(input_dir, image) == 0

\* line 35: os.path.join(output_subdirectory, os.path.basename(input_image))
output_path(input_dir, image) == P(output_subdirectory(input_dir, image), image)

\* lines 33-37: with no output directory os.path.join(None, ...) raises
CopyCanSucceed(output_directory) == output_directory

\* Muxer(...).mux() with delete_video: the video is removed after a mux
MuxEffect(files, video, delete_video) ==
    IF delete_video THEN files \ {video} ELSE files

\* the exception of the transform swallowed
AfterTransformAlways(ok) == "load"

\* lines 50-56 run only when lines 24-48 did not raise
AfterTransform(ok) == IF ok THEN "load" ELSE "failed"

\* lines 24-48: the copy of a lone image, or Muxer(...).mux()
Transform(d) ==
    /\ task[d].st = "mux"
    /\ \E ok \in BOOLEAN :
         /\ (Cur(d).video = NoFile /\ ok) => CopyCanSucceed(args.od)
         /\ task' = [task EXCEPT ![d].st = AfterTransform(ok)]
         /\ fs' = IF ok /\ Cur(d).video # NoFile
                  THEN [fs EXCEPT ![d] = MuxEffect(@, Cur(d).video, args.dv)]
                  ELSE fs
         /\ succeeded' = IF ok THEN succeeded \cup {CurPath(d)} ELSE succeeded
         /\ retry' = IF ok THEN retry \ {CurPath(d)} ELSE retry \cup {CurPath(d)}
    /\ UNCHANGED <<store, args, dirs, ledger, mainPc, run, observer, events, pass,
                   ncreate, recorded>>

\* line 51
Load(d) ==
    /\ task[d].st = "load"
    /\ task' = IF LoadRaises
               THEN [task EXCEPT ![d].st = "failed"]
               ELSE [task EXCEPT ![d].st = "save", ![d].pf = load_processed_files]
    /\ UNCHANGED <<store, args, dirs, fs, ledger, mainPc, run, observer, events, pass,
                   ncreate, recorded, succeeded, retry>>

\* lines 71-74
save_processed_files(processed_files) ==
    /\ store' = "valid"
    /\ ledger' = processed_files
    /\ recorded' = recorded \cup Keys(processed_files)

\* lines 52-56
Save(d) ==
    /\ task[d].st = "save"
    /\ save_processed_files(Put(task[d].pf, CurPath(d), CurVideoPath(d)))
    /\ task' = [task EXCEPT ![d] =
                  IF @.i = Len(@.pairs)
                  THEN [@ EXCEPT !.st = "done"]
                  ELSE [@ EXCEPT !.st = "mux", !.i = @ + 1]]
    /\ UNCHANGED <<args, dirs, fs, mainPc, run, observer, events, pass,
                   ncreate, succeeded, retry>>

\* lines 73-74: open(..., 'w') truncates the file and json.dump writes it
\* piece by piece; a process killed in between leaves content that is not JSON
Corrupt ==
    /\ store # "malformed"
    /\ store' = "malformed"
    /\ ledger' = {}
    /\ UNCHANGED <<args, dirs, fs, mainPc, run, observer, events, pass, task,
                   ncreate, recorded, succeeded, retry>>

\* ---------------------------------------------------------------- __main__
\* line 223
StartBatch ==
    /\ mainPc = "start"
    /\ mainPc' = "batch"
    /\ process_directory("batch", NoEvent, Root)
    /\ UNCHANGED <<store, args, dirs, fs, ledger, run, observer, events, ncreate,
                   recorded, succeeded, retry>>

\* line 223 raises: the interpreter exits with a traceback
Crash ==
    /\ mainPc = "batch"
    /\ pass.pc = "raised"
    /\ mainPc' = "crashed"
    /\ UNCHANGED <<store, args, dirs, fs, ledger, run, observer, events, pass, task,
                   ncreate, recorded, succeeded, retry>>

\* the observer started without waiting for the batch call
BatchReturnedAny(p) == TRUE

\* line 223 precedes line 226: the statement after the call runs only when
\* process_directory has returned without raising
BatchReturned(p) == p.pc = "ok"

\* lines 226-229
ObserverStart ==
    /\ mainPc = "batch"
    /\ BatchReturned(pass)
    /\ mainPc' = "loop"
    /\ observer' = "on"
    /\ UNCHANGED <<store, args, dirs, fs, ledger, run, events, pass, task, ncreate,
                   recorded, succeeded, retry>>

\* the except branch without observer.stop()
StopObserverNot(o) == o

\* line 235: observer.stop() ends the dispatching of events
StopObserver(o) == IF o = "on" THEN "stopped" ELSE o

\* lines 234-235: KeyboardInterrupt, observer.stop()
Interrupt ==
    /\ mainPc = "loop"
    /\ mainPc' = "joining"
    /\ observer' = StopObserver(observer)
    /\ events' = <<>>
    /\ UNCHANGED <<store, args, dirs, fs, ledger, run, pass, task, ncreate, recorded,
                   succeeded, retry>>

\* line 236: observer.join() returns when the observer thread has ended
ObserverJoin ==
    /\ mainPc = "joining"
    /\ PassOver
    /\ mainPc' = "exited"
    /\ UNCHANGED <<store, args, dirs, fs, ledger, run, observer, events, pass, task,
                   ncreate, recorded, succeeded, retry>>

\* the program is started again in the same working directory
Restart ==
    /\ mainPc \in {"crashed", "exited"}
    /\ run < MaxRuns
    /\ run' = run + 1
    /\ mainPc' = "start"
    /\ observer' = "off"
    /\ events' = <<>>
    /\ pass' = NoPass
    /\ task' = [d \in AllDirs |-> IdleTask]
    /\ recorded' = Keys(ledger)
    /\ UNCHANGED <<store, args, dirs, fs, ledger, ncreate, succeeded, retry>>

\* ------------------------------------------------------------- FileHandler
\* the handler without the is_directory test
on_created_any(event) ==
    process_directory("live", event, Dirname(event.src_path))

\* lines 18-21, called by the observer thread for one event at a time
on_created(event) ==
    IF ~event.is_directory
    THEN process_directory("live", event, Dirname(event.src_path))
    ELSE UNCHANGED <<pass, task>>

Dispatch ==
    /\ observer = "on"
    /\ pass.pc = "ok"
    /\ events # <<>>
    /\ events' = Tail(events)
    /\ on_created(Head(events))
    /\ UNCHANGED <<store, args, dirs, fs, ledger, mainPc, run, observer, ncreate,
                   recorded, succeeded, retry>>

\* an exception leaving on_created ends the observer thread
HandlerRaise ==
    /\ observer \in {"on", "stopped"}
    /\ pass.kind = "live"
    /\ pass.pc = "raised"
    /\ observer' = "dead"
    /\ UNCHANGED <<store, args, dirs, fs, ledger, mainPc, run, events, pass, task,
                   ncreate, recorded, succeeded, retry>>

\* ------------------------------------------------------------ specification
Next ==
    \/ \E d \in AllDirs, f \in Names : CreateFile(d, f)
    \/ \E d \in 1..MaxDirs : CreateDir(d)
    \/ StartBatch
    \/ JoinNext
    \/ JoinRaise
    \/ ShutdownDone
    \/ \E d \in AllDirs : Pick(d)
    \/ \E d \in AllDirs : Scan(d)
    \/ \E d \in AllDirs : Transform(d)
    \/ \E d \in AllDirs : Load(d)
    \/ \E d \in AllDirs : Save(d)
    \/ Crash
    \/ ObserverStart
    \/ Interrupt
    \/ ObserverJoin
    \/ Restart
    \/ Dispatch
    \/ HandlerRaise

Spec == Init /\ [][Next]_vars

\* --------------------------------------------- the scan of one directory alone
\* the ledger entries an earlier invocation may have left for the images of Root
OldEntries ==
    {[image |-> P(Root, f), video |-> v] :
        f \in {g \in RichNames : IsImage(g)},
        v \in {NoPath} \cup {P(Root, F("a", ".mov")), P(Root, F("b", ".MOV"))}}

InitScan ==
    /\ args \in [od : BOOLEAN, dv : {FALSE}]
    /\ dirs = {Root}
    /\ \E content \in SUBSET RichNames :
         /\ Cardinality(content) <= MaxListing
         /\ fs = [d \in AllDirs |-> IF d = Root THEN content ELSE {}]
    /\ ledger \in {L \in SUBSET OldEntries :
                     \A e1, e2 \in L : e1.image = e2.image => e1 = e2}
    /\ store = IF ledger = {} THEN "absent" ELSE "valid"
    /\ mainPc = "start"
    /\ run = 1
    /\ observer = "off"
    /\ events = <<>>
    /\ pass = NoPass
    /\ task = [d \in AllDirs |-> IdleTask]
    /\ ncreate = 0
    /\ recorded = Keys(ledger)
    /\ succeeded = Keys(ledger)
    /\ retry = {}

NextScan ==
    \/ StartBatch
    \/ \E d \in AllDirs : Pick(d)
    \/ \E d \in AllDirs : Scan(d)

SpecScan == InitScan /\ [][NextScan]_vars


\* ------------------------------------- one directory over a damaged ledger
OneDirEntries ==
    {[image |-> P(Root, f), video |-> NoPath] : f \in {g \in Names : IsImage(g)}}

InitStore ==
    /\ args = [od |-> TRUE, dv |-> FALSE]
    /\ dirs = {Root}
    /\ \E content \in SUBSET Names :
         fs = [d \in AllDirs |-> IF d = Root THEN content ELSE {}]
    /\ store \in {"absent", "valid", "malformed"}
    /\ ledger \in (IF store = "valid" THEN SUBSET OneDirEntries ELSE {{}})
    /\ mainPc = "start"
    /\ run = 1
    /\ observer = "off"
    /\ events = <<>>
    /\ pass = NoPass
    /\ task = [d \in AllDirs |-> IdleTask]
    /\ ncreate = 0
    /\ recorded = Keys(ledger)
    /\ succeeded = Keys(ledger)
    /\ retry = {}

NextStore ==
    \/ Corrupt
    \/ StartBatch
    \/ JoinNext
    \/ JoinRaise
    \/ ShutdownDone
    \/ \E d \in AllDirs : Pick(d)
    \/ \E d \in AllDirs : Scan(d)
    \/ \E d \in AllDirs : Transform(d)
    \/ \E d \in AllDirs : Load(d)
    \/ \E d \in AllDirs : Save(d)

SpecStore == InitStore /\ [][NextStore]_vars

\* ------------------------------------------- the walk of a two-level tree
\* every directory holds no image, so every task returns without a transform
InitWalk ==
    /\ args = [od |-> TRUE, dv |-> FALSE]
    /\ dirs \in DeepTrees
    /\ fs = [d \in AllDirs |-> {}]
    /\ store = "absent"
    /\ ledger = {}
    /\ mainPc = "start"
    /\ run = 1
    /\ observer = "off"
    /\ events = <<>>
    /\ pass = NoPass
    /\ task = [d \in AllDirs |-> IdleTask]
    /\ ncreate = 0
    /\ recorded = {}
    /\ succeeded = {}
    /\ retry = {}

NextWalk ==
    \/ \E d \in AllDirs : CreateFile(d, F("c", ".txt"))
    \/ \E d \in AllDirs : CreateDir(d)
    \/ StartBatch
    \/ JoinNext
    \/ \E d \in AllDirs : Pick(d)
    \/ \E d \in AllDirs : Scan(d)
    \/ ObserverStart
    \/ Dispatch

SpecWalk == InitWalk /\ [][NextWalk]_vars

\* ------------------------------------------------------------------ claims
Scanned(d) == task[d].st \in {"mux", "load", "save", "done", "failed"}
Listed(d) == Range(task[d].files)
PairIdx(d) == 1..Len(task[d].pairs)

\* C6: a scan emits no Pair whose image path is a key of the ledger snapshot
\* the scan loaded, whether or not the video recorded for that image is still
\* in the directory.
Thm_C6 ==
    \A d \in AllDirs : Scanned(d) =>
        \A k \in PairIdx(d) : P(d, task[d].pairs[k].image) \notin Keys(task[d].snap)

\* a scan has skipped an image whose recorded video is gone and has also
\* emitted a Pair for another image
Wit_C6 ==
    /\ Scanned(Root)
    /\ task[Root].pairs # <<>>
    /\ \E e \in task[Root].snap :
         /\ e.image.name \in Listed(Root)
         /\ e.video # NoPath
         /\ e.video.name \notin Listed(Root)

\* C7: a scan emits exactly one Pair for each image of the listing that is
\* not in the snapshot and none for anything else; a Pair's video is a listed
\* video named base + one of .mp4 .mov .MP4 .MOV; a Pair has no video only
\* when every such video is carried by an earlier Pair; no video is carried
\* by two Pairs.
Thm_C7 ==
    \A d \in AllDirs : Scanned(d) =>
        LET pairs == task[d].pairs
            fresh == {f \in Listed(d) :
                        IsImage(f) /\ P(d, f) \notin Keys(task[d].snap)}
        IN /\ {pairs[k].image : k \in PairIdx(d)} = fresh
           /\ Len(pairs) = Cardinality(fresh)
           /\ \A k \in PairIdx(d) :
                 LET image == pairs[k].image
                     video == pairs[k].video
                     named == {F(image.base, PairExts[n]) : n \in 1..Len(PairExts)}
                 IN /\ video # NoFile => video \in named \cap Listed(d)
                    /\ video = NoFile =>
                          \A v \in named \cap Listed(d) :
                              \E k2 \in 1..(k - 1) : pairs[k2].video = v
                    /\ \A k2 \in PairIdx(d) :
                          (k2 # k /\ video # NoFile) => pairs[k2].video # video

\* two images share a base name: one Pair carries the video, the other none
Wit_C7 ==
    /\ Scanned(Root)
    /\ \E k1, k2 \in PairIdx(Root) :
         /\ task[Root].pairs[k1].video # NoFile
         /\ task[Root].pairs[k2].video = NoFile
         /\ task[Root].pairs[k1].image.base = task[Root].pairs[k2].image.base

\* C8: with an output directory, a listed video is copied as unmatched if and
\* only if no listed image has its base name.
CX_C8 ==
    \A d \in AllDirs : (Scanned(d) /\ args.od) =>
        \A v \in {f \in Listed(d) : IsVideo(f)} :
            v \in task[d].unm <=>
                ~ \E f \in Listed(d) : IsImage(f) /\ f.base = v.base

\* the ledger entries of the Pairs of directory d
PairEntries(d) ==
    {[image |-> P(d, task[d].pairs[k].image),
      video |-> IF task[d].pairs[k].video = NoFile THEN NoPath
                ELSE P(d, task[d].pairs[k].video)] : k \in PairIdx(d)}

\* the ledger a pass leaves when its directories are processed one after the
\* other: the ledger it started from with one entry put per Pair
SeqLedger ==
    LET new == UNION {PairEntries(d) : d \in Range(pass.futures)}
    IN {e \in pass.led0 : e.image \notin Keys(new)} \cup new

\* the transform of the current Pair of directory d is submitted in this step
Submits(d) == task[d].st = "mux" /\ task'[d].st \in {"load", "failed"}

\* C1: once an image path has been a key of the ledger file during this
\* invocation, no later step submits that image to the transform.
CX_C1 == [][\A d \in AllDirs : Submits(d) => CurPath(d) \notin recorded]_vars

\* C2: a batch pass over several directories whose transforms all succeed
\* leaves the ledger that processing the directories one after the other
\* leaves.
CX_C2 ==
    (pass.kind = "batch" /\ pass.pc = "ok" /\ Len(pass.futures) >= 2)
        => ledger = SeqLedger

\* C3: between a task's load of the ledger (line 51) and its save (line 56)
\* no other task changes the ledger file.
CX_C3 ==
    [][\A d \in AllDirs :
          (task[d].st = "save" /\ ledger' # ledger) => task'[d].st # "save"]_vars

\* C4: a ledger key is written only for an image whose transform has returned
\* successfully; an image whose latest transform failed is not a key of the
\* ledger, and every scan of its directory made while that holds emits it as a
\* Pair.
Thm_C4 ==
    /\ Keys(ledger) \subseteq succeeded
    /\ retry \cap Keys(ledger) = {}
    /\ \A d \in AllDirs :
         (task[d].st = "failed" /\ task[d].i >= 1) => CurPath(d) \in retry
    /\ \A d \in AllDirs : Scanned(d) =>
         \A x \in retry : x.dir = d =>
             \E k \in PairIdx(d) : task[d].pairs[k].image = x.name

\* an image whose transform failed in the first invocation is the Pair about
\* to be submitted by a pass of the second invocation
Wit_C4 ==
    /\ run = 2
    /\ \E d \in AllDirs :
         /\ task[d].st = "mux"
         /\ CurPath(d) \in retry
         /\ CurPath(d) \notin Keys(ledger)

\* C5: process_directory returns or raises only when every future it
\* submitted has run to its end, and it raises exactly when one of them
\* failed.
Thm_C5 ==
    pass.pc \in {"ok", "raised"} =>
        /\ \A d \in Range(pass.futures) : Finished(task[d])
        /\ pass.pc = "raised" <=> \E d \in Range(pass.futures) : task[d].st = "failed"

\* the call has raised, and a sibling that was taken from the queue after the
\* failure has run to completion
Wit_C5 ==
    /\ pass.pc = "raised"
    /\ \E d \in Range(pass.futures) :
         task[d].st = "done" /\ task[d].late /\ task[d].pairs # <<>>

\* C9: a live pass whose transforms all succeed runs the tasks, emits the
\* Pairs and leaves the ledger of a batch scan of the directory of the created
\* file over the same content and starting ledger.
CX_C9 ==
    (pass.kind = "live" /\ pass.pc = "ok") =>
        /\ Range(pass.futures) = WalkSet(pass.dirs0, Dirname(pass.ev.src_path))
        /\ \A d \in Range(pass.futures) :
             task[d].pairs = Pairer(task[d].files, d, pass.led0).tasks
        /\ ledger = SeqLedger

\* C10 as stated: a live pass runs the single-directory logic for the
\* directory of the created entry and for no other directory.
CX_C10 ==
    pass.kind = "live" =>
        {d \in AllDirs : task[d].st # "idle"} = {Dirname(pass.ev.src_path)}

\* C10 amended: a live pass is started by a creation event of a non-directory
\* entry only, and runs the single-directory logic for the directory of the
\* created entry and every directory beneath it, and for no other directory.
Thm_C10 ==
    pass.kind = "live" =>
        /\ ~ pass.ev.is_directory
        /\ {d \in AllDirs : task[d].st # "idle"} =
               {d \in pass.dirs0 : IsUnder(d, Dirname(pass.ev.src_path))}

\* a live pass for a file created in the root has run tasks for the root and
\* for a directory beneath it
Wit_C10 ==
    /\ pass.kind = "live"
    /\ pass.pc = "ok"
    /\ Dirname(pass.ev.src_path) = Root
    /\ \E d \in AllDirs \ {Root} : task[d].st = "done" /\ task[d].pairs # <<>>

\* a call of process_directory begins in this step
PassStarts == pass.pc \in {"none", "ok", "raised"} /\ pass'.pc = "join"

\* C11: once observer.stop() has returned no creation event starts a pass;
\* the pass in flight keeps its futures, none of them is withdrawn, and
\* observer.join() returns only when every one of them has run to its end.
Thm_C11 ==
    [][/\ mainPc \in {"joining", "exited"} => ~ PassStarts
       /\ (mainPc = "joining" /\ mainPc' \in {"joining", "exited"}) =>
             /\ pass'.futures = pass.futures
             /\ \A d \in Range(pass.futures) :
                   task'[d].st # "idle" /\ (Finished(task[d]) => task'[d] = task[d])
       /\ mainPc' = "exited" =>
             \A d \in Range(pass'.futures) : Finished(task'[d])]_vars

\* the stop has returned while a live pass is in flight between the load and
\* the save of a Pair, and another creation has happened since
Wit_C11 ==
    /\ mainPc = "joining"
    /\ observer = "stopped"
    /\ pass.kind = "live"
    /\ pass.pc = "join"
    /\ \E d \in Range(pass.futures) : task[d].st = "save"
    /\ \E d \in AllDirs : \E f \in fs[d] :
         IsImage(f) /\ P(d, f) \notin succeeded \cup retry
                    /\ \A e \in Range(pass.futures) : f \notin Range(task[e].files)

\* C12: the processing of a Pair with no video succeeds in every
\* configuration; the only failure of it is a filesystem error of the copy
\* into a configured output directory, so with no output directory configured
\* no image-only Pair fails.
CX_C12 ==
    \A d \in AllDirs :
        (task[d].st = "failed" /\ task[d].i >= 1 /\ Cur(d).video = NoFile) => args.od

\* C13: a load of the ledger when the file does not exist yields the empty
\* mapping; a load when the file is malformed ends the task that attempts it
\* in failure, at the scan (line 81) and at the record step (line 51) alike,
\* and that task never goes on to a save.
Thm_C13 ==
    [][\A d \in AllDirs :
         /\ (task[d].st = "listed" /\ task'[d] # task[d]) =>
               /\ store = "malformed" =>
                     task'[d].st = "failed" /\ task'[d].pairs = <<>>
               /\ store = "absent" => task'[d].snap = {} /\ Scanned(d)'
               /\ store = "valid" => task'[d].snap = ledger
         /\ (task[d].st = "load" /\ task'[d] # task[d]) =>
               /\ store = "malformed" => task'[d].st = "failed" /\ UNCHANGED store
               /\ store = "absent" => task'[d].st = "save" /\ task'[d].pf = {}
               /\ store = "valid" => task'[d].st = "save" /\ task'[d].pf = ledger]_vars

\* the load of the record step has failed on a malformed file after the
\* transform of the Pair had succeeded, and the file is still malformed
Wit_C13 ==
    /\ store = "malformed"
    /\ \E d \in AllDirs :
         /\ task[d].st = "failed"
         /\ task[d].i >= 1
         /\ CurPath(d) \in succeeded \ retry
         /\ task[d].pf = {}

\* C14: the images of a scan are the listed files whose suffix is an image
\* suffix in any letter case; the video of a Pair is base + the first of .mp4,
\* .mov, .MP4, .MOV that is listed and not carried by an earlier Pair, and
\* absent when there is none, whatever the case of the image's suffix.
Thm_C14 ==
    \A d \in AllDirs : Scanned(d) =>
        LET pairs == task[d].pairs
        IN /\ {pairs[k].image : k \in PairIdx(d)} =
                 {f \in Listed(d) : /\ f.ext \in {".jpg", ".JPG", ".heic", ".HEIC"}
                                     /\ P(d, f) \notin Keys(task[d].snap)}
           /\ \A k \in PairIdx(d) :
                 LET taken == {pairs[k2].video : k2 \in 1..(k - 1)}
                     avail == {n \in 1..4 :
                                 F(pairs[k].image.base, <<".mp4", ".mov", ".MP4", ".MOV">>[n])
                                     \in Listed(d) \ taken}
                 IN pairs[k].video =
                        IF avail = {} THEN NoFile
                        ELSE F(pairs[k].image.base,
                               <<".mp4", ".mov", ".MP4", ".MOV">>[
                                   CHOOSE n \in avail : \A m \in avail : n <= m])

\* an image with an upper-case suffix is paired with the .mov video although
\* a .MP4 video of its base name is listed too
Wit_C14 ==
    /\ Scanned(Root)
    /\ F("a", ".MP4") \in Listed(Root)
    /\ \E k \in PairIdx(Root) :
         /\ task[Root].pairs[k].image = F("a", ".HEIC")
         /\ task[Root].pairs[k].video = F("a", ".mov")

\* C15: a call of process_directory submits one task for its top directory and
\* for every directory that exists beneath it at any depth when it enumerates,
\* each exactly once and all before any of them starts; a directory created
\* afterwards is not added to that call.
Enumerated(p) == {d \in p.dirs0 : IsUnder(d, p.root)}

Thm_C15 ==
    [][/\ pass'.kind # "none" =>
            /\ Range(pass'.futures) = Enumerated(pass')
            /\ Len(pass'.futures) = Cardinality(Enumerated(pass'))
            /\ {d \in AllDirs : task'[d].st # "idle"} = Enumerated(pass')
       /\ PassStarts =>
            /\ pass'.dirs0 = dirs
            /\ \A d \in Enumerated(pass') : task'[d].st = "queued"]_vars

\* the batch call has run the task of a directory two levels below the root
\* and a directory created after its enumeration has no task
Wit_C15 ==
    /\ pass.kind = "batch"
    /\ \E d \in AllDirs \ {Root} : Parent(d) # Root /\ task[d].st = "done"
    /\ \E d \in dirs \ pass.dirs0 : task[d].st = "idle"

\* C16: when two Pairs of one scan have images of the same base name and
\* exactly one video of that base name is listed, the Pair whose image comes
\* first in the listing carries the video and the other carries none.
ListPos(d, f) == CHOOSE n \in 1..Len(task[d].files) : task[d].files[n] = f

Thm_C16 ==
    \A d \in AllDirs : Scanned(d) =>
        \A k1, k2 \in PairIdx(d) :
            LET first == task[d].pairs[k1]
                other == task[d].pairs[k2]
                vids == {F(first.image.base, e) : e \in {".mp4", ".mov", ".MP4", ".MOV"}}
                            \cap Listed(d)
            IN (/\ first.image.base = other.image.base
                /\ ListPos(d, first.image) < ListPos(d, other.image)
                /\ Cardinality(vids) = 1)
               => /\ first.video \in vids
                  /\ other.video = NoFile
                  /\ k1 < k2

\* a.HEIC is listed before a.jpg and takes the only video a.mov
Wit_C16 ==
    /\ Scanned(Root)
    /\ Len(task[Root].pairs) = 2
    /\ task[Root].pairs[1] = [image |-> F("a", ".HEIC"), video |-> F("a", ".mov")]
    /\ task[Root].pairs[2] = [image |-> F("a", ".jpg"), video |-> NoFile]

\* C17: with an output directory, two tasks of different directories that are
\* both copying a lone image never copy to the same output path.
Copying(d) == task[d].st = "mux" /\ Cur(d).video = NoFile

CX_C17 ==
    \A d1, d2 \in AllDirs :
        (args.od /\ d1 # d2 /\ Copying(d1) /\ Copying(d2))
            => output_path(d1, Cur(d1).image) # output_path(d2, Cur(d2).image)

\* C18: the observer is running only after the batch call has returned with
\* every task done; a live call starts only when no task of an earlier call
\* is queued or running; and when the batch call raises, the program ends
\* with the observer never started.
Thm_C18 ==
    [][/\ (observer' # "off" /\ pass'.kind = "batch") =>
            /\ pass'.pc = "ok"
            /\ \A d \in Range(pass'.futures) : task'[d].st = "done"
       /\ pass'.kind = "live" => observer' # "off"
       /\ (PassStarts /\ pass'.kind = "live") =>
            /\ observer = "on"
            /\ \A d \in AllDirs : task[d].st \in {"idle", "done"}
       /\ (pass'.kind = "batch" /\ pass'.pc \in {"shutdown", "raised"}) =>
            /\ observer' = "off"
            /\ events' = <<>>
            /\ mainPc' \in {"batch", "crashed"}
       /\ mainPc' = "crashed" => (observer' = "off" /\ pass'.kind = "batch")]_vars

\* the batch call has raised and the program has ended without an observer
Wit_C18 ==
    /\ mainPc = "crashed"
    /\ pass.kind = "batch"
    /\ pass.pc = "raised"
    /\ observer = "off"
    /\ \E d \in Range(pass.futures) : task[d].st = "failed"

\* C19: a task transforms its Pairs one at a time in the order of the scan,
\* each after the earlier ones were recorded; once a Pair fails the task does
\* nothing more in that call, and the entries recorded for its earlier Pairs
\* are still in the ledger.
FailedAtPair(t) == t.st = "failed" /\ t.i >= 1

InOrder ==
    \A d \in AllDirs :
        /\ (task[d].st = "mux" /\ task'[d].st \in {"load", "failed"}) =>
              /\ task'[d].i = task[d].i
              /\ task'[d].pairs = task[d].pairs
              /\ \A k \in 1..(task[d].i - 1) : P(d, task[d].pairs[k].image) \in recorded
        /\ (task[d].st = "save" /\ task'[d].st = "mux") => task'[d].i = task[d].i + 1

StopsAtFailure ==
    \A d \in AllDirs :
        (FailedAtPair(task[d]) /\ ~PassStarts /\ mainPc' # "start") =>
            /\ task'[d] = task[d]
            /\ \A k \in (task[d].i + 1)..Len(task[d].pairs) :
                  P(d, task[d].pairs[k].image) \in Keys(ledger') =>
                      P(d, task[d].pairs[k].image) \in Keys(ledger)

EarlierRemain ==
    \A d \in AllDirs :
        FailedAtPair(task[d]) =>
            \A k \in 1..(task[d].i - 1) : P(d, task[d].pairs[k].image) \in Keys(ledger)

CX_C19 == [][InOrder /\ StopsAtFailure /\ EarlierRemain']_vars

====
